---- MODULE Spec2Model ----
(***************************************************************************)
(* Polymorphic event containers of ruma-events (src/collections/all.rs):   *)
(* the enums Event, RoomEvent and StateEvent, their Deserialize and        *)
(* Serialize implementations and the From conversions.                     *)
(*                                                                         *)
(* A payload (serde_json::Value) is a record of its top-level fields; a    *)
(* field is absent, null (present, but not a string) or a string.          *)
(***************************************************************************)
EXTENDS Integers, Sequences, FiniteSets, TLC

VARIABLES pc, container, value, result, instance, encoded

vars == <<pc, container, value, result, instance, encoded>>

(* ------------------------------ bounds --------------------------------- *)

\* number of distinct unrecognized "type" strings tried
MaxUnknown == 2

\* number of distinct well-formed "content" payloads tried
MaxContent == 1

UnknownNames == <<"m.unknown.foo", "m.unknown.bar", "org.example.a", "org.example.b">>

ContentNames == <<"hi", "ho", "hu", "he">>

UnknownTags == {UnknownNames[i] : i \in 1..MaxUnknown}

Contents == {ContentNames[i] : i \in 1..MaxContent}

(* --------------------------- JSON values ------------------------------- *)

Absent == [k |-> "absent", s |-> ""]

Null == [k |-> "null", s |-> ""]

Str(x) == [k |-> "str", s |-> x]

DataFields == {"content", "event_id", "room_id", "sender", "state_key"}

\* serde_json::Value::get: Some(..) only on an object that has the key
Get(v, name) ==
  IF ~v.obj THEN Absent
  ELSE IF name = "type" THEN v.type
  ELSE v.f[name]

IsSome(x) == x.k # "absent"

(* ------------------------------ EventType ------------------------------ *)

\* the known discriminators: <<EventType variant, tag>>, as documented on
\* the members of Event
Tags ==
  { <<"CallAnswer", "m.call.answer">>,
    <<"CallCandidates", "m.call.candidates">>,
    <<"CallHangup", "m.call.hangup">>,
    <<"CallInvite", "m.call.invite">>,
    <<"Presence", "m.presence">>,
    <<"Receipt", "m.receipt">>,
    <<"RoomAliases", "m.room.aliases">>,
    <<"RoomAvatar", "m.room.avatar">>,
    <<"RoomCanonicalAlias", "m.room.canonical_alias">>,
    <<"RoomCreate", "m.room.create">>,
    <<"RoomGuestAccess", "m.room.guest_access">>,
    <<"RoomHistoryVisibility", "m.room.history_visibility">>,
    <<"RoomJoinRules", "m.room.join_rules">>,
    <<"RoomMember", "m.room.member">>,
    <<"RoomMessage", "m.room.message">>,
    <<"RoomName", "m.room.name">>,
    <<"RoomPowerLevels", "m.room.power_levels">>,
    <<"RoomRedaction", "m.room.redaction">>,
    <<"RoomThirdPartyInvite", "m.room.third_party_invite">>,
    <<"RoomTopic", "m.room.topic">>,
    <<"Tag", "m.tag">>,
    <<"Typing", "m.typing">> }

KnownTypes == {t[1] : t \in Tags}

KnownTags == {t[2] : t \in Tags}

\* an EventType value: a known variant, or Custom(raw)
Known(variant) == [variant |-> variant, raw |-> ""]

CustomType(raw) == [variant |-> "Custom", raw |-> raw]

EventTypes == {Known(t) : t \in KnownTypes} \cup {CustomType(u) : u \in UnknownTags}

\* EventType from a string: a known tag maps to its variant, anything else
\* to Custom(raw)
EventTypeFromStr(s) ==
  IF s \in KnownTags
    THEN Known((CHOOSE t \in Tags : t[2] = s)[1])
    ELSE CustomType(s)

\* Display of an EventType: the tag of a known variant, the raw string of
\* Custom
EventTypeToStr(et) ==
  IF et.variant = "Custom"
    THEN et.raw
    ELSE (CHOOSE t \in Tags : t[1] = et.variant)[2]

\* from_value::<EventType>: only a JSON string decodes
EventTypeFromValue(x) ==
  IF x.k = "str"
    THEN [ok |-> TRUE, et |-> EventTypeFromStr(x.s)]
    ELSE [ok |-> FALSE, et |-> CustomType("")]

(* ----------------------------- leaf shapes ------------------------------ *)

\* leaf shapes with an open content payload (serde_json::Value)
CustomLeaves == {"CustomEvent", "CustomRoomEvent", "CustomStateEvent"}

\* basic tier: content and type only
BasicLeaves == {"PresenceEvent", "TagEvent", "TypingEvent", "CustomEvent"}

\* room-scoped tier: basic + event_id, room_id, sender
RoomLeaves ==
  {"AnswerEvent", "CandidatesEvent", "HangupEvent", "InviteEvent",
   "MessageEvent", "RedactionEvent", "CustomRoomEvent"}

\* state tier: room-scoped + state_key
StateLeaves ==
  {"AliasesEvent", "AvatarEvent", "CanonicalAliasEvent", "CreateEvent",
   "GuestAccessEvent", "HistoryVisibilityEvent", "JoinRulesEvent",
   "MemberEvent", "NameEvent", "PowerLevelsEvent", "ThirdPartyInviteEvent",
   "TopicEvent", "CustomStateEvent"}

\* struct ReceiptEvent { content, event_type ("type"), room_id }
ReceiptEventFields == {"content", "room_id"}

LeafTypes == BasicLeaves \cup {"ReceiptEvent"} \cup RoomLeaves \cup StateLeaves

\* the fields of a leaf struct besides "type"; all of them are required
FieldsOf(ty) ==
  IF ty = "ReceiptEvent" THEN ReceiptEventFields
  ELSE IF ty \in BasicLeaves THEN {"content"}
  ELSE IF ty \in RoomLeaves THEN {"content", "event_id", "room_id", "sender"}
  ELSE {"content", "event_id", "room_id", "sender", "state_key"}

\* does the JSON value x decode as field name of leaf shape ty
FieldDecodes(ty, name, x) ==
  IF name = "content" /\ ty \in CustomLeaves
    THEN x.k \in {"str", "null"}
    ELSE x.k = "str"

NoLeaf ==
  [shape |-> "none", event_type |-> CustomType(""), f |-> [n \in DataFields |-> Absent]]

\* from_value::<T>(value) of a derived Deserialize: a field of the wrong
\* type or a missing field is an error, a field the struct does not have is
\* ignored, and "type" is stored as the EventType it parses to
FromValue(ty, v) ==
  IF ~v.obj THEN [ok |-> FALSE, event |-> NoLeaf, cause |-> "invalid type"]
  ELSE IF \/ v.type.k = "null"
          \/ \E n \in FieldsOf(ty) : IsSome(v.f[n]) /\ ~FieldDecodes(ty, n, v.f[n])
    THEN [ok |-> FALSE, event |-> NoLeaf, cause |-> "invalid type"]
  ELSE IF \/ v.type.k = "absent"
          \/ \E n \in FieldsOf(ty) : ~IsSome(v.f[n])
    THEN [ok |-> FALSE, event |-> NoLeaf, cause |-> "missing field"]
  ELSE [ok |-> TRUE,
        event |-> [shape |-> ty,
                   event_type |-> EventTypeFromStr(v.type.s),
                   f |-> [n \in DataFields |->
                            IF n \in FieldsOf(ty) THEN v.f[n] ELSE Absent]],
        cause |-> ""]

\* event.serialize(serializer) of a derived Serialize: an object with the
\* struct's fields, "type" written from the event_type field
LeafSerialize(event) ==
  [ok |-> TRUE,
   value |-> [obj |-> TRUE,
              type |-> Str(EventTypeToStr(event.event_type)),
              f |-> [n \in DataFields |->
                       IF n \in FieldsOf(event.shape) THEN event.f[n] ELSE Absent]]]

(* --------------------------- the containers ---------------------------- *)

Containers == {"Event", "RoomEvent", "StateEvent"}

\* enum Event: its members
EventMembers ==
  {"CallAnswer", "CallCandidates", "CallHangup", "CallInvite",
   "Presence", "Receipt", "RoomAliases", "RoomAvatar",
   "RoomCanonicalAlias", "RoomCreate", "RoomGuestAccess", "RoomHistoryVisibility",
   "RoomJoinRules", "RoomMember", "RoomMessage", "RoomName",
   "RoomPowerLevels", "RoomRedaction", "RoomThirdPartyInvite", "RoomTopic",
   "Tag", "Typing",
   "Custom", "CustomRoom", "CustomState"}

\* enum RoomEvent: its members
RoomEventMembers ==
  {"CallAnswer", "CallCandidates", "CallHangup", "CallInvite",
   "RoomAliases", "RoomAvatar",
   "RoomCanonicalAlias", "RoomCreate", "RoomGuestAccess", "RoomHistoryVisibility",
   "RoomJoinRules", "RoomMember", "RoomMessage", "RoomName",
   "RoomPowerLevels", "RoomRedaction", "RoomThirdPartyInvite", "RoomTopic",
   "CustomRoom", "CustomState"}

\* StateEventMembers with a member that no arm of the decoder builds
StateEventMembers_WithMessage ==
  {"RoomAliases", "RoomAvatar",
   "RoomCanonicalAlias", "RoomCreate", "RoomGuestAccess", "RoomHistoryVisibility",
   "RoomJoinRules", "RoomMember", "RoomMessage", "RoomName",
   "RoomPowerLevels", "RoomThirdPartyInvite", "RoomTopic",
   "CustomState"}

\* enum StateEvent: its members
StateEventMembers ==
  {"RoomAliases", "RoomAvatar",
   "RoomCanonicalAlias", "RoomCreate", "RoomGuestAccess", "RoomHistoryVisibility",
   "RoomJoinRules", "RoomMember", "RoomName",
   "RoomPowerLevels", "RoomThirdPartyInvite", "RoomTopic",
   "CustomState"}

Members(c) ==
  IF c = "Event" THEN EventMembers
  ELSE IF c = "RoomEvent" THEN RoomEventMembers
  ELSE StateEventMembers

CustomMembers == {"Custom", "CustomRoom", "CustomState"}

\* the leaf type a member holds, "M(T)" in the enums: <<M, T>>
Variants ==
  {<<"CallAnswer", "AnswerEvent">>,
   <<"CallCandidates", "CandidatesEvent">>,
   <<"CallHangup", "HangupEvent">>,
   <<"CallInvite", "InviteEvent">>,
   <<"Presence", "PresenceEvent">>,
   <<"Receipt", "ReceiptEvent">>,
   <<"RoomAliases", "AliasesEvent">>,
   <<"RoomAvatar", "AvatarEvent">>,
   <<"RoomCanonicalAlias", "CanonicalAliasEvent">>,
   <<"RoomCreate", "CreateEvent">>,
   <<"RoomGuestAccess", "GuestAccessEvent">>,
   <<"RoomHistoryVisibility", "HistoryVisibilityEvent">>,
   <<"RoomJoinRules", "JoinRulesEvent">>,
   <<"RoomMember", "MemberEvent">>,
   <<"RoomMessage", "MessageEvent">>,
   <<"RoomName", "NameEvent">>,
   <<"RoomPowerLevels", "PowerLevelsEvent">>,
   <<"RoomRedaction", "RedactionEvent">>,
   <<"RoomThirdPartyInvite", "ThirdPartyInviteEvent">>,
   <<"RoomTopic", "TopicEvent">>,
   <<"Tag", "TagEvent">>,
   <<"Typing", "TypingEvent">>,
   <<"Custom", "CustomEvent">>,
   <<"CustomRoom", "CustomRoomEvent">>,
   <<"CustomState", "CustomStateEvent">>}

LeafOfMember(m) == (CHOOSE x \in Variants : x[1] = m)[2]

(* ------------------------------- decode -------------------------------- *)

\* a match arm "EventType::V => from_value::<T>(value), Ok(C::M(event))"
LeafArm(variant, ty, member) ==
  [pat |-> {variant}, kind |-> "leaf", ty |-> ty, member |-> member, msg |-> ""]

\* the match arm "EventType::Custom(_) => ..."
CustomArm ==
  [pat |-> {"Custom"}, kind |-> "custom", ty |-> "none", member |-> "none", msg |-> ""]

\* a match arm "EventType::A | EventType::B | ... => Err(custom(msg))"
IllegalArm(variants, msg) ==
  [pat |-> variants, kind |-> "illegal", ty |-> "none", member |-> "none", msg |-> msg]

\* RoomEventIllegal with a discriminator that also has an arm of its own
RoomEventIllegal_Overlap == {"Presence", "Receipt", "Tag", "Typing", "RoomMessage"}

\* the discriminators RoomEvent::deserialize rejects
RoomEventIllegal == {"Presence", "Receipt", "Tag", "Typing"}

\* the message of the other container
RoomEventIllegalMsg_Swapped == "not a state event"

\* the error RoomEvent::deserialize rejects them with
RoomEventIllegalMsg == "not a room event"

\* the message of the other container
StateEventIllegalMsg_Swapped == "not a room event"

\* the error StateEvent::deserialize rejects them with
StateEventIllegalMsg == "not a state event"

\* the discriminators StateEvent::deserialize rejects
StateEventIllegal ==
  {"CallAnswer", "CallCandidates", "CallHangup", "CallInvite", "Presence",
   "Receipt", "RoomMessage", "RoomRedaction", "Tag", "Typing"}

\* the arms of "match event_type" in Event::deserialize, in source order
EventArms ==
  << LeafArm("CallAnswer", "AnswerEvent", "CallAnswer"),
     LeafArm("CallCandidates", "CandidatesEvent", "CallCandidates"),
     LeafArm("CallHangup", "HangupEvent", "CallHangup"),
     LeafArm("CallInvite", "InviteEvent", "CallInvite"),
     LeafArm("Presence", "PresenceEvent", "Presence"),
     LeafArm("Receipt", "ReceiptEvent", "Receipt"),
     LeafArm("RoomAliases", "AliasesEvent", "RoomAliases"),
     LeafArm("RoomAvatar", "AvatarEvent", "RoomAvatar"),
     LeafArm("RoomCanonicalAlias", "CanonicalAliasEvent", "RoomCanonicalAlias"),
     LeafArm("RoomCreate", "CreateEvent", "RoomCreate"),
     LeafArm("RoomGuestAccess", "GuestAccessEvent", "RoomGuestAccess"),
     LeafArm("RoomHistoryVisibility", "HistoryVisibilityEvent", "RoomHistoryVisibility"),
     LeafArm("RoomJoinRules", "JoinRulesEvent", "RoomJoinRules"),
     LeafArm("RoomMember", "MemberEvent", "RoomMember"),
     LeafArm("RoomMessage", "MessageEvent", "RoomMessage"),
     LeafArm("RoomName", "NameEvent", "RoomName"),
     LeafArm("RoomPowerLevels", "PowerLevelsEvent", "RoomPowerLevels"),
     LeafArm("RoomRedaction", "RedactionEvent", "RoomRedaction"),
     LeafArm("RoomThirdPartyInvite", "ThirdPartyInviteEvent", "RoomThirdPartyInvite"),
     LeafArm("RoomTopic", "TopicEvent", "RoomTopic"),
     LeafArm("Tag", "TagEvent", "Tag"),
     LeafArm("Typing", "TypingEvent", "Typing"),
     CustomArm >>

\* the arms of "match event_type" in RoomEvent::deserialize, in source order
RoomEventArms ==
  << LeafArm("CallAnswer", "AnswerEvent", "CallAnswer"),
     LeafArm("CallCandidates", "CandidatesEvent", "CallCandidates"),
     LeafArm("CallHangup", "HangupEvent", "CallHangup"),
     LeafArm("CallInvite", "InviteEvent", "CallInvite"),
     LeafArm("RoomAliases", "AliasesEvent", "RoomAliases"),
     LeafArm("RoomAvatar", "AvatarEvent", "RoomAvatar"),
     LeafArm("RoomCanonicalAlias", "CanonicalAliasEvent", "RoomCanonicalAlias"),
     LeafArm("RoomCreate", "CreateEvent", "RoomCreate"),
     LeafArm("RoomGuestAccess", "GuestAccessEvent", "RoomGuestAccess"),
     LeafArm("RoomHistoryVisibility", "HistoryVisibilityEvent", "RoomHistoryVisibility"),
     LeafArm("RoomJoinRules", "JoinRulesEvent", "RoomJoinRules"),
     LeafArm("RoomMember", "MemberEvent", "RoomMember"),
     LeafArm("RoomMessage", "MessageEvent", "RoomMessage"),
     LeafArm("RoomName", "NameEvent", "RoomName"),
     LeafArm("RoomPowerLevels", "PowerLevelsEvent", "RoomPowerLevels"),
     LeafArm("RoomRedaction", "RedactionEvent", "RoomRedaction"),
     LeafArm("RoomThirdPartyInvite", "ThirdPartyInviteEvent", "RoomThirdPartyInvite"),
     LeafArm("RoomTopic", "TopicEvent", "RoomTopic"),
     CustomArm,
     IllegalArm(RoomEventIllegal, RoomEventIllegalMsg) >>

\* StateEventArms with the m.room.topic arm a copy of the m.room.name arm
StateEventArms_TopicAsName ==
  << LeafArm("RoomAliases", "AliasesEvent", "RoomAliases"),
     LeafArm("RoomAvatar", "AvatarEvent", "RoomAvatar"),
     LeafArm("RoomCanonicalAlias", "CanonicalAliasEvent", "RoomCanonicalAlias"),
     LeafArm("RoomCreate", "CreateEvent", "RoomCreate"),
     LeafArm("RoomGuestAccess", "GuestAccessEvent", "RoomGuestAccess"),
     LeafArm("RoomHistoryVisibility", "HistoryVisibilityEvent", "RoomHistoryVisibility"),
     LeafArm("RoomJoinRules", "JoinRulesEvent", "RoomJoinRules"),
     LeafArm("RoomMember", "MemberEvent", "RoomMember"),
     LeafArm("RoomName", "NameEvent", "RoomName"),
     LeafArm("RoomPowerLevels", "PowerLevelsEvent", "RoomPowerLevels"),
     LeafArm("RoomThirdPartyInvite", "ThirdPartyInviteEvent", "RoomThirdPartyInvite"),
     LeafArm("RoomTopic", "NameEvent", "RoomName"),
     CustomArm,
     IllegalArm(StateEventIllegal, StateEventIllegalMsg) >>

\* the arms of "match event_type" in StateEvent::deserialize, in source order
StateEventArms ==
  << LeafArm("RoomAliases", "AliasesEvent", "RoomAliases"),
     LeafArm("RoomAvatar", "AvatarEvent", "RoomAvatar"),
     LeafArm("RoomCanonicalAlias", "CanonicalAliasEvent", "RoomCanonicalAlias"),
     LeafArm("RoomCreate", "CreateEvent", "RoomCreate"),
     LeafArm("RoomGuestAccess", "GuestAccessEvent", "RoomGuestAccess"),
     LeafArm("RoomHistoryVisibility", "HistoryVisibilityEvent", "RoomHistoryVisibility"),
     LeafArm("RoomJoinRules", "JoinRulesEvent", "RoomJoinRules"),
     LeafArm("RoomMember", "MemberEvent", "RoomMember"),
     LeafArm("RoomName", "NameEvent", "RoomName"),
     LeafArm("RoomPowerLevels", "PowerLevelsEvent", "RoomPowerLevels"),
     LeafArm("RoomThirdPartyInvite", "ThirdPartyInviteEvent", "RoomThirdPartyInvite"),
     LeafArm("RoomTopic", "TopicEvent", "RoomTopic"),
     CustomArm,
     IllegalArm(StateEventIllegal, StateEventIllegalMsg) >>

\* EventCustom without the custom-basic fallback (the branch of RoomEvent)
EventCustom_NoBasic(v) ==
  IF IsSome(Get(v, "state_key"))
    THEN [ty |-> "CustomStateEvent", member |-> "CustomState"]
    ELSE [ty |-> "CustomRoomEvent", member |-> "CustomRoom"]

\* EventCustom testing event_id, room_id and sender before state_key
EventCustom_RoomFirst(v) ==
  IF IsSome(Get(v, "event_id")) /\ IsSome(Get(v, "room_id")) /\ IsSome(Get(v, "sender"))
    THEN [ty |-> "CustomRoomEvent", member |-> "CustomRoom"]
  ELSE IF IsSome(Get(v, "state_key"))
    THEN [ty |-> "CustomStateEvent", member |-> "CustomState"]
  ELSE [ty |-> "CustomEvent", member |-> "Custom"]

\* EventCustom without the custom-room branch
EventCustom_NoRoom(v) ==
  IF IsSome(Get(v, "state_key"))
    THEN [ty |-> "CustomStateEvent", member |-> "CustomState"]
    ELSE [ty |-> "CustomEvent", member |-> "Custom"]

\* the unknown-discriminator branch of Event::deserialize
EventCustom(v) ==
  IF IsSome(Get(v, "state_key"))
    THEN [ty |-> "CustomStateEvent", member |-> "CustomState"]
  ELSE IF IsSome(Get(v, "event_id")) /\ IsSome(Get(v, "room_id")) /\ IsSome(Get(v, "sender"))
    THEN [ty |-> "CustomRoomEvent", member |-> "CustomRoom"]
  ELSE [ty |-> "CustomEvent", member |-> "Custom"]

\* RoomEventCustom without the state_key test
RoomEventCustom_NoState(v) ==
  [ty |-> "CustomRoomEvent", member |-> "CustomRoom"]

\* RoomEventCustom with the custom-basic fallback of Event
RoomEventCustom_BasicFallback(v) ==
  IF IsSome(Get(v, "state_key"))
    THEN [ty |-> "CustomStateEvent", member |-> "CustomState"]
  ELSE IF IsSome(Get(v, "event_id")) /\ IsSome(Get(v, "room_id")) /\ IsSome(Get(v, "sender"))
    THEN [ty |-> "CustomRoomEvent", member |-> "CustomRoom"]
  ELSE [ty |-> "CustomEvent", member |-> "Custom"]

\* the unknown-discriminator branch of RoomEvent::deserialize
RoomEventCustom(v) ==
  IF IsSome(Get(v, "state_key"))
    THEN [ty |-> "CustomStateEvent", member |-> "CustomState"]
    ELSE [ty |-> "CustomRoomEvent", member |-> "CustomRoom"]

\* StateEventCustom with the state_key test of RoomEvent
StateEventCustom_AsRoom(v) ==
  IF IsSome(Get(v, "state_key"))
    THEN [ty |-> "CustomStateEvent", member |-> "CustomState"]
    ELSE [ty |-> "CustomRoomEvent", member |-> "CustomRoom"]

\* the unknown-discriminator branch of StateEvent::deserialize
StateEventCustom(v) ==
  [ty |-> "CustomStateEvent", member |-> "CustomState"]

\* the indices of the arms whose pattern matches the discriminator
Matching(arms, et) == {i \in 1..Len(arms) : et.variant \in arms[i].pat}

\* match takes the first arm whose pattern matches
MatchArm(arms, et) ==
  LET m == Matching(arms, et)
  IN  arms[CHOOSE i \in m : \A j \in m : i <= j]

Fail(kind, msg, shape) ==
  [ok |-> FALSE, kind |-> kind, msg |-> msg, shape |-> shape,
   member |-> "none", event |-> NoLeaf]

\* Wrap falling back to the custom-basic member when the leaf parse fails
Wrap_Fallback(ty, member, v) ==
  LET r == FromValue(ty, v)
      q == FromValue("CustomEvent", v)
  IN  IF r.ok
        THEN [ok |-> TRUE, kind |-> "Ok", msg |-> "", shape |-> ty,
              member |-> member, event |-> r.event]
      ELSE IF q.ok
        THEN [ok |-> TRUE, kind |-> "Ok", msg |-> "", shape |-> "CustomEvent",
              member |-> "Custom", event |-> q.event]
      ELSE Fail("LeafDecodeFailure", r.cause, ty)

\* "match from_value::<T>(value) { Ok(event) => ..., Err(error) => return
\* Err(custom(error.to_string())) }; Ok(C::M(event))"
Wrap(ty, member, v) ==
  LET r == FromValue(ty, v)
  IN  IF r.ok
        THEN [ok |-> TRUE, kind |-> "Ok", msg |-> "", shape |-> ty,
              member |-> member, event |-> r.event]
        ELSE Fail("LeafDecodeFailure", r.cause, ty)

\* Decode without the test for a missing "type": the payload goes to the
\* unknown-discriminator branch
Decode_NoTypeCheck(arms, custom, v) ==
  LET t == EventTypeFromValue(Get(v, "type"))
  IN  IF ~IsSome(Get(v, "type")) THEN Wrap(custom.ty, custom.member, v)
      ELSE IF ~t.ok
        THEN Fail("MalformedDiscriminator", "invalid type", "none")
      ELSE LET arm == MatchArm(arms, t.et)
           IN  IF arm.kind = "leaf" THEN Wrap(arm.ty, arm.member, v)
               ELSE IF arm.kind = "custom" THEN Wrap(custom.ty, custom.member, v)
               ELSE Fail("IllegalMemberForContainer", arm.msg, "none")

\* Decode parsing the leaf of an illegal discriminator before rejecting it
Decode_ParseBeforeLegal(arms, custom, v) ==
  IF ~IsSome(Get(v, "type"))
    THEN Fail("MissingDiscriminator", "missing field: type", "none")
  ELSE LET t == EventTypeFromValue(Get(v, "type"))
       IN  IF ~t.ok
             THEN Fail("MalformedDiscriminator", "invalid type", "none")
           ELSE LET arm == MatchArm(arms, t.et)
                IN  IF arm.kind = "leaf" THEN Wrap(arm.ty, arm.member, v)
                    ELSE IF arm.kind = "custom" THEN Wrap(custom.ty, custom.member, v)
                    ELSE IF ~FromValue(LeafOfMember(t.et.variant), v).ok
                      THEN Fail("LeafDecodeFailure",
                                FromValue(LeafOfMember(t.et.variant), v).cause,
                                LeafOfMember(t.et.variant))
                    ELSE Fail("IllegalMemberForContainer", arm.msg, "none")

\* the body shared by the three deserialize functions: value.get("type"),
\* from_value::<EventType>, then the match over the container's arms
Decode(arms, custom, v) ==
  IF ~IsSome(Get(v, "type"))
    THEN Fail("MissingDiscriminator", "missing field: type", "none")
  ELSE LET t == EventTypeFromValue(Get(v, "type"))
       IN  IF ~t.ok
             THEN Fail("MalformedDiscriminator", "invalid type", "none")
           ELSE LET arm == MatchArm(arms, t.et)
                IN  IF arm.kind = "leaf" THEN Wrap(arm.ty, arm.member, v)
                    ELSE IF arm.kind = "custom" THEN Wrap(custom.ty, custom.member, v)
                    ELSE Fail("IllegalMemberForContainer", arm.msg, "none")

EventDeserialize(v) == Decode(EventArms, EventCustom(v), v)

RoomEventDeserialize(v) == Decode(RoomEventArms, RoomEventCustom(v), v)

StateEventDeserialize(v) == Decode(StateEventArms, StateEventCustom(v), v)

Arms(c) ==
  IF c = "Event" THEN EventArms
  ELSE IF c = "RoomEvent" THEN RoomEventArms
  ELSE StateEventArms

Custom(c, v) ==
  IF c = "Event" THEN EventCustom(v)
  ELSE IF c = "RoomEvent" THEN RoomEventCustom(v)
  ELSE StateEventCustom(v)

Deserialize(c, v) ==
  IF c = "Event" THEN EventDeserialize(v)
  ELSE IF c = "RoomEvent" THEN RoomEventDeserialize(v)
  ELSE StateEventDeserialize(v)

(* ------------------------------- encode -------------------------------- *)

\* EventSerialize writing "type" from the member instead of delegating it
EventSerialize_Retag(inst) ==
  LET out == LeafSerialize(inst.event)
  IN  IF inst.member \in KnownTypes
        THEN [out EXCEPT !.value.type = Str(EventTypeToStr(Known(inst.member)))]
        ELSE out

\* "match *self { C::M(ref event) => event.serialize(serializer), ... }"
EventSerialize(inst) == LeafSerialize(inst.event)

RoomEventSerialize(inst) == LeafSerialize(inst.event)

StateEventSerialize(inst) == LeafSerialize(inst.event)

(* ----------------------------- conversions ----------------------------- *)

\* impl_from_t_for_event!(T, M): <<T, M>>
EventFrom ==
  {<<"AnswerEvent", "CallAnswer">>,
    <<"CandidatesEvent", "CallCandidates">>,
    <<"HangupEvent", "CallHangup">>,
    <<"InviteEvent", "CallInvite">>,
    <<"PresenceEvent", "Presence">>,
    <<"ReceiptEvent", "Receipt">>,
    <<"AliasesEvent", "RoomAliases">>,
    <<"AvatarEvent", "RoomAvatar">>,
    <<"CanonicalAliasEvent", "RoomCanonicalAlias">>,
    <<"CreateEvent", "RoomCreate">>,
    <<"GuestAccessEvent", "RoomGuestAccess">>,
    <<"HistoryVisibilityEvent", "RoomHistoryVisibility">>,
    <<"JoinRulesEvent", "RoomJoinRules">>,
    <<"MemberEvent", "RoomMember">>,
    <<"MessageEvent", "RoomMessage">>,
    <<"NameEvent", "RoomName">>,
    <<"PowerLevelsEvent", "RoomPowerLevels">>,
    <<"RedactionEvent", "RoomRedaction">>,
    <<"ThirdPartyInviteEvent", "RoomThirdPartyInvite">>,
    <<"TopicEvent", "RoomTopic">>,
    <<"TagEvent", "Tag">>,
    <<"TypingEvent", "Typing">>,
    <<"CustomEvent", "Custom">>,
    <<"CustomRoomEvent", "CustomRoom">>,
    <<"CustomStateEvent", "CustomState">>}

\* impl_from_t_for_room_event!(T, M): <<T, M>>
RoomEventFrom ==
  {<<"AnswerEvent", "CallAnswer">>,
    <<"CandidatesEvent", "CallCandidates">>,
    <<"HangupEvent", "CallHangup">>,
    <<"InviteEvent", "CallInvite">>,
    <<"AliasesEvent", "RoomAliases">>,
    <<"AvatarEvent", "RoomAvatar">>,
    <<"CanonicalAliasEvent", "RoomCanonicalAlias">>,
    <<"CreateEvent", "RoomCreate">>,
    <<"GuestAccessEvent", "RoomGuestAccess">>,
    <<"HistoryVisibilityEvent", "RoomHistoryVisibility">>,
    <<"JoinRulesEvent", "RoomJoinRules">>,
    <<"MemberEvent", "RoomMember">>,
    <<"MessageEvent", "RoomMessage">>,
    <<"NameEvent", "RoomName">>,
    <<"PowerLevelsEvent", "RoomPowerLevels">>,
    <<"RedactionEvent", "RoomRedaction">>,
    <<"ThirdPartyInviteEvent", "RoomThirdPartyInvite">>,
    <<"TopicEvent", "RoomTopic">>,
    <<"CustomRoomEvent", "CustomRoom">>,
    <<"CustomStateEvent", "CustomState">>}

\* StateEventFrom with the members of NameEvent and TopicEvent exchanged
StateEventFrom_Swapped ==
  {<<"AliasesEvent", "RoomAliases">>,
   <<"AvatarEvent", "RoomAvatar">>,
   <<"CanonicalAliasEvent", "RoomCanonicalAlias">>,
   <<"CreateEvent", "RoomCreate">>,
   <<"GuestAccessEvent", "RoomGuestAccess">>,
   <<"HistoryVisibilityEvent", "RoomHistoryVisibility">>,
   <<"JoinRulesEvent", "RoomJoinRules">>,
   <<"MemberEvent", "RoomMember">>,
   <<"NameEvent", "RoomTopic">>,
   <<"PowerLevelsEvent", "RoomPowerLevels">>,
   <<"ThirdPartyInviteEvent", "RoomThirdPartyInvite">>,
   <<"TopicEvent", "RoomName">>,
   <<"CustomStateEvent", "CustomState">>}

\* impl_from_t_for_state_event!(T, M): <<T, M>>
StateEventFrom ==
  {<<"AliasesEvent", "RoomAliases">>,
    <<"AvatarEvent", "RoomAvatar">>,
    <<"CanonicalAliasEvent", "RoomCanonicalAlias">>,
    <<"CreateEvent", "RoomCreate">>,
    <<"GuestAccessEvent", "RoomGuestAccess">>,
    <<"HistoryVisibilityEvent", "RoomHistoryVisibility">>,
    <<"JoinRulesEvent", "RoomJoinRules">>,
    <<"MemberEvent", "RoomMember">>,
    <<"NameEvent", "RoomName">>,
    <<"PowerLevelsEvent", "RoomPowerLevels">>,
    <<"ThirdPartyInviteEvent", "RoomThirdPartyInvite">>,
    <<"TopicEvent", "RoomTopic">>,
    <<"CustomStateEvent", "CustomState">>}

FromTable(c) ==
  IF c = "Event" THEN EventFrom
  ELSE IF c = "RoomEvent" THEN RoomEventFrom
  ELSE StateEventFrom

(* ------------------------------- inputs -------------------------------- *)

\* a payload that is not a JSON object
NotObject ==
  [obj |-> FALSE, type |-> Absent, f |-> [n \in DataFields |-> Absent]]

TypeVals == {Absent, Null} \cup {Str(t) : t \in KnownTags \cup UnknownTags}

ContentVals == {Absent, Null} \cup {Str(c) : c \in Contents}

\* the JSON objects whose "type" is one of types
Objects(types) ==
  { [obj |-> TRUE, type |-> t,
     f |-> [content |-> c, event_id |-> e, room_id |-> r, sender |-> s, state_key |-> k]] :
      t \in types, c \in ContentVals,
      e \in {Absent, Str("$1")}, r \in {Absent, Str("!r")}, s \in {Absent, Str("@a")},
      k \in {Absent, Null, Str("")} }

Payloads == {NotObject} \cup Objects(TypeVals)

\* the content payloads a leaf struct can hold: a well-formed content, and
\* for the custom shapes (content: Value) also null
ContentsOf(ty) ==
  {Str(c) : c \in Contents} \cup (IF ty \in CustomLeaves THEN {Null} ELSE {})

\* the string held by the metadata field name
MetaVal(name) ==
  IF name = "event_id" THEN Str("$1")
  ELSE IF name = "room_id" THEN Str("!r")
  ELSE IF name = "sender" THEN Str("@a")
  ELSE Str("")

\* the values of leaf struct ty: event_type is a public field of type
\* EventType, so it holds any EventType
LeafInstances(ty) ==
  { [shape |-> ty, event_type |-> et,
     f |-> [n \in DataFields |->
              IF n \notin FieldsOf(ty) THEN Absent
              ELSE IF n = "content" THEN c
              ELSE MetaVal(n)]] :
      et \in EventTypes, c \in ContentsOf(ty) }

(* ---------------------------- state machine ---------------------------- *)

NoResult ==
  [ok |-> FALSE, kind |-> "none", msg |-> "", shape |-> "none",
   member |-> "none", event |-> NoLeaf]

NoInstance == [c |-> "none", member |-> "none", event |-> NoLeaf]

NoEncoded == [ok |-> FALSE, value |-> NotObject]

Init ==
  /\ pc = "start"
  /\ container = "none"
  /\ value = NotObject
  /\ result = NoResult
  /\ instance = NoInstance
  /\ encoded = NoEncoded

\* a payload arrives from the wire
Receive ==
  \E p \in Payloads :
    /\ pc = "start"
    /\ pc' = "input"
    /\ value' = p
    /\ container' = "none"
    /\ result' = NoResult
    /\ instance' = NoInstance
    /\ encoded' = NoEncoded

\* C::deserialize of the current payload; a payload that was produced by
\* serialize keeps the instance it was produced from
DeserializeStep(c) ==
  /\ pc \in {"input", "encoded"}
  /\ result' = Deserialize(c, value)
  /\ container' = c
  /\ pc' = IF pc = "input" THEN "decoded" ELSE "redecoded"
  /\ instance' =
       IF pc = "encoded" THEN instance
       ELSE IF result'.ok
         THEN [c |-> c, member |-> result'.member, event |-> result'.event]
       ELSE NoInstance
  /\ UNCHANGED <<value, encoded>>

DecodeEvent == DeserializeStep("Event")

DecodeRoomEvent == DeserializeStep("RoomEvent")

DecodeStateEvent == DeserializeStep("StateEvent")

\* C::from(event) for a leaf value of a type the container has a From for
FromStep(c) ==
  \E e \in FromTable(c) :
    \E leaf \in LeafInstances(e[1]) :
      /\ pc = "start"
      /\ instance' = [c |-> c, member |-> e[2], event |-> leaf]
      /\ container' = c
      /\ pc' = "converted"
      /\ value' = NotObject
      /\ result' = NoResult
      /\ encoded' = NoEncoded

ConvertEvent == FromStep("Event")

ConvertRoomEvent == FromStep("RoomEvent")

ConvertStateEvent == FromStep("StateEvent")

\* C::serialize of the current instance; the output becomes the payload
SerializeStep(c, out) ==
  /\ pc \in {"converted", "decoded"}
  /\ instance.c = c
  /\ encoded' = out
  /\ value' = IF out.ok THEN out.value ELSE NotObject
  /\ container' = c
  /\ pc' = "encoded"
  /\ result' = NoResult
  /\ UNCHANGED instance

EncodeEvent == SerializeStep("Event", EventSerialize(instance))

EncodeRoomEvent == SerializeStep("RoomEvent", RoomEventSerialize(instance))

EncodeStateEvent == SerializeStep("StateEvent", StateEventSerialize(instance))

\* the call has returned; the next call starts afresh
Return ==
  /\ pc \in {"decoded", "redecoded", "encoded", "converted"}
  /\ pc' = "start"
  /\ container' = "none"
  /\ value' = NotObject
  /\ result' = NoResult
  /\ instance' = NoInstance
  /\ encoded' = NoEncoded

Next ==
  \/ Receive
  \/ Return
  \/ DecodeEvent
  \/ DecodeRoomEvent
  \/ DecodeStateEvent
  \/ ConvertEvent
  \/ ConvertRoomEvent
  \/ ConvertStateEvent
  \/ EncodeEvent
  \/ EncodeRoomEvent
  \/ EncodeStateEvent

Spec == Init /\ [][Next]_vars

TypeOK ==
  /\ pc \in {"start", "input", "decoded", "converted", "encoded", "redecoded"}
  /\ container \in Containers \cup {"none"}
  /\ result.ok => result.member \in CustomMembers \cup KnownTypes

(* ------------------------------- claims -------------------------------- *)

\* container c has returned from deserialize of the current payload
Decoded(c) == pc \in {"decoded", "redecoded"} /\ container = c

\* the payload has a "type" string
HasTypeStr(v) == v.obj /\ v.type.k = "str"

\* the payload's "type" is a string outside the known catalog
UnknownType(v) == HasTypeStr(v) /\ v.type.s \notin KnownTags

\* the payload's "type" is the tag of one of the EventType variants
TypeIn(v, variants) ==
  HasTypeStr(v) /\ \E t \in Tags : t[2] = v.type.s /\ t[1] \in variants

AllRoomFields(v) ==
  IsSome(Get(v, "event_id")) /\ IsSome(Get(v, "room_id")) /\ IsSome(Get(v, "sender"))

\* C1: Event decode of a payload whose type is an unrecognized string only
\* ever targets Custom, CustomRoom or CustomState: it succeeds with one of
\* these three members or fails in the parse of one of the three generic
\* shapes, never with a missing-type, malformed-type or illegal-member
\* error; and with a content and no state_key it always succeeds.
C1_Totality ==
  (Decoded("Event") /\ UnknownType(value)) =>
    /\ result.kind \in {"Ok", "LeafDecodeFailure"}
    /\ result.shape \in CustomLeaves
    /\ result.ok => result.member \in CustomMembers
    /\ (IsSome(Get(value, "content")) /\ ~IsSome(Get(value, "state_key"))) => result.ok

C1_Witness ==
  /\ Decoded("Event") /\ UnknownType(value)
  /\ result.ok /\ result.member = "Custom"
  /\ IsSome(Get(value, "room_id")) /\ ~IsSome(Get(value, "sender"))

\* C2: under Event decode of an unknown-discriminator payload the generic
\* shape parsed (and the member, when the parse succeeds) follows the
\* priority: state_key present => custom-state, even with event_id, room_id
\* and sender present; otherwise all three present => custom-room;
\* otherwise custom-basic.
C2_Priority ==
  (Decoded("Event") /\ UnknownType(value)) =>
    /\ IsSome(Get(value, "state_key")) =>
         /\ result.shape = "CustomStateEvent"
         /\ result.ok => result.member = "CustomState"
    /\ (~IsSome(Get(value, "state_key")) /\ AllRoomFields(value)) =>
         /\ result.shape = "CustomRoomEvent"
         /\ result.ok => result.member = "CustomRoom"
    /\ (~IsSome(Get(value, "state_key")) /\ ~AllRoomFields(value)) =>
         /\ result.shape = "CustomEvent"
         /\ result.ok => result.member = "Custom"

C2_Witness ==
  /\ Decoded("Event") /\ UnknownType(value)
  /\ IsSome(Get(value, "state_key")) /\ AllRoomFields(value)
  /\ result.ok /\ result.member = "CustomState"

\* C3: RoomEvent decode of a payload whose type is m.presence, m.receipt,
\* m.tag or m.typing fails with "not a room event" and builds no member,
\* and no other type string is rejected with that error.
C3_NotARoomEvent ==
  (Decoded("RoomEvent") /\ HasTypeStr(value)) =>
    /\ value.type.s \in {"m.presence", "m.receipt", "m.tag", "m.typing"} =>
         /\ ~result.ok
         /\ result.kind = "IllegalMemberForContainer"
         /\ result.msg = "not a room event"
         /\ result.member = "none" /\ result.event = NoLeaf
    /\ value.type.s \notin {"m.presence", "m.receipt", "m.tag", "m.typing"} =>
         /\ result.kind # "IllegalMemberForContainer"
         /\ result.msg # "not a room event"

C3_Witness ==
  /\ Decoded("RoomEvent") /\ HasTypeStr(value) /\ value.type.s = "m.receipt"
  /\ IsSome(Get(value, "content")) /\ IsSome(Get(value, "room_id"))
  /\ result.msg = "not a room event"

\* the tags StateEvent rejects, as the claim lists them
C4_Rejected ==
  {"m.call.answer", "m.call.candidates", "m.call.hangup", "m.call.invite",
   "m.presence", "m.receipt", "m.room.message", "m.room.redaction", "m.tag",
   "m.typing"}

\* C4: StateEvent decode of a payload whose type is one of the four call
\* events, m.presence, m.receipt, m.room.message, m.room.redaction, m.tag or
\* m.typing fails with "not a state event" and builds no member; every
\* other known type is never rejected with that error.
C4_NotAStateEvent ==
  (Decoded("StateEvent") /\ HasTypeStr(value)) =>
    /\ value.type.s \in C4_Rejected =>
         /\ ~result.ok
         /\ result.kind = "IllegalMemberForContainer"
         /\ result.msg = "not a state event"
         /\ result.member = "none" /\ result.event = NoLeaf
    /\ value.type.s \notin C4_Rejected =>
         /\ result.kind \in {"Ok", "LeafDecodeFailure"}
         /\ result.msg # "not a state event"

C4_Witness ==
  /\ Decoded("StateEvent") /\ HasTypeStr(value) /\ value.type.s = "m.room.message"
  /\ AllRoomFields(value) /\ IsSome(Get(value, "content"))
  /\ result.msg = "not a state event"

\* C5: whenever StateEvent decode accepts a payload, RoomEvent decode and
\* Event decode of the same payload succeed too, with the same member
\* holding the same leaf value.
C5_CrossContainer ==
  (Decoded("StateEvent") /\ result.ok) =>
    LET r == RoomEventDeserialize(value)
        e == EventDeserialize(value)
    IN  /\ r.ok /\ r.member = result.member /\ r.event = result.event
        /\ e.ok /\ e.member = result.member /\ e.event = result.event

C5_Witness ==
  /\ Decoded("StateEvent") /\ result.ok /\ result.member = "CustomState"
  /\ AllRoomFields(value)

\* C6: a container built from a leaf value of a known shape, encoded and
\* decoded again at the same container, yields the same member holding an
\* equal leaf value.
C6_RoundTrip ==
  (pc = "redecoded" /\ container = instance.c /\ instance.event.shape \notin CustomLeaves) =>
    /\ result.ok
    /\ result.member = instance.member
    /\ result.event = instance.event

\* C7: in every container a payload without a "type" field fails with
\* missing field "type", whatever else it holds, and no member is built.
C7_MissingType ==
  \A c \in Containers :
    (Decoded(c) /\ ~IsSome(Get(value, "type"))) =>
      /\ ~result.ok
      /\ result.kind = "MissingDiscriminator"
      /\ result.msg = "missing field: type"
      /\ result.member = "none" /\ result.event = NoLeaf /\ result.shape = "none"

C7_Witness ==
  /\ Decoded("StateEvent") /\ value.obj /\ ~IsSome(Get(value, "type"))
  /\ AllRoomFields(value) /\ IsSome(Get(value, "state_key")) /\ IsSome(Get(value, "content"))
  /\ result.kind = "MissingDiscriminator"

\* C8: in every container exactly one arm matches the discriminator of a
\* payload and each decode has exactly one outcome, a member or an error;
\* a known discriminator only ever yields the member named after it, an
\* unknown one only ever a custom member.
C8_Disjoint ==
  \A c \in Containers :
    (Decoded(c) /\ HasTypeStr(value)) =>
      LET et == EventTypeFromStr(value.type.s)
      IN  /\ Cardinality(Matching(Arms(c), et)) = 1
          /\ result.ok <=> result.kind = "Ok"
          /\ result.ok <=> result.member # "none"
          /\ result.ok => result.member \in Members(c)
          /\ (result.ok /\ ~UnknownType(value)) => result.member = et.variant
          /\ (result.ok /\ UnknownType(value)) => result.member \in CustomMembers

C8_Witness ==
  /\ Decoded("RoomEvent") /\ HasTypeStr(value) /\ value.type.s = "m.room.message"
  /\ result.ok /\ result.member = "RoomMessage"
  /\ IsSome(Get(value, "state_key"))

\* C9: encode of a container instance succeeds and its output is the object
\* the contained leaf value encodes to: "type" as held by the leaf value and
\* every other field exactly as the leaf value holds it, for every member.
C9_EncodeDelegates ==
  pc = "encoded" =>
    /\ encoded.ok
    /\ encoded = LeafSerialize(instance.event)
    /\ value = encoded.value
    /\ encoded.value.obj
    /\ encoded.value.type = Str(EventTypeToStr(instance.event.event_type))
    /\ \A n \in DataFields : encoded.value.f[n] = instance.event.f[n]

C9_Witness ==
  /\ pc = "encoded" /\ container = "Event" /\ instance.member = "Receipt"
  /\ instance.event.event_type = Known("Typing")
  /\ encoded.value.type = Str("m.typing")

\* the generic shapes the unknown-discriminator branch of c can target
CustomTargets(c) ==
  { Custom(c, p) : p \in Objects({Str(u) : u \in UnknownTags}) }

\* the members decode of c builds around a leaf of shape ty
DecodeMembers(c, ty) ==
  { Arms(c)[i].member : i \in {j \in 1..Len(Arms(c)) :
                                  Arms(c)[j].kind = "leaf" /\ Arms(c)[j].ty = ty} }
  \cup { x.member : x \in {y \in CustomTargets(c) : y.ty = ty} }

\* C10: a container has exactly one From for each leaf shape that one of its
\* members holds and none for any other leaf shape; the conversion puts the
\* leaf value in the member that holds its shape, which is the one member
\* decode builds for that shape.
C10_Conversions ==
  pc = "converted" =>
    /\ instance.c = container
    /\ instance.member \in Members(container)
    /\ LeafOfMember(instance.member) = instance.event.shape
    /\ instance.event \in LeafInstances(instance.event.shape)
    /\ \A ty \in LeafTypes :
         LET es == {e \in FromTable(container) : e[1] = ty}
         IN  IF \E m \in Members(container) : LeafOfMember(m) = ty
               THEN /\ Cardinality(es) = 1
                    /\ \A e \in es : DecodeMembers(container, ty) = {e[2]}
               ELSE es = {}

C10_Witness ==
  /\ pc = "converted" /\ container = "StateEvent"
  /\ instance.member = "RoomTopic" /\ instance.event.shape = "TopicEvent"

\* the round trip of C6 for the leaf values whose event_type is the
\* discriminator of their own shape
C6_RoundTripConsistent ==
  (/\ pc = "redecoded" /\ container = instance.c
   /\ instance.event.shape \notin CustomLeaves
   /\ instance.event.event_type = Known(instance.member)) =>
    /\ result.ok
    /\ result.member = instance.member
    /\ result.event = instance.event

\* the payload of scenario A, with or without a state_key
TopicPayload(v) ==
  /\ HasTypeStr(v) /\ v.type.s = "m.room.topic"
  /\ Get(v, "content") = Str("hi")
  /\ AllRoomFields(v)

\* C11 as stated: the m.room.topic payload with content "hi", event_id,
\* room_id and sender but no state_key decodes as StateEvent to RoomTopic
\* with topic "hi".
C11_ScenarioA ==
  (Decoded("StateEvent") /\ TopicPayload(value) /\ ~IsSome(Get(value, "state_key"))) =>
    /\ result.ok
    /\ result.member = "RoomTopic"
    /\ result.event.f["content"] = Str("hi")

\* C11 as amended: the m.room.topic payload with content "hi", event_id,
\* room_id and sender decodes as StateEvent to RoomTopic with topic "hi"
\* when it has a state_key string, and fails in the parse of TopicEvent,
\* building no member, when state_key is missing or no string.
C11_TopicNeedsStateKey ==
  (Decoded("StateEvent") /\ TopicPayload(value)) =>
    IF Get(value, "state_key").k = "str"
      THEN /\ result.ok
           /\ result.member = "RoomTopic"
           /\ result.event.shape = "TopicEvent"
           /\ result.event.f["content"] = Str("hi")
      ELSE /\ ~result.ok
           /\ result.kind = "LeafDecodeFailure"
           /\ result.shape = "TopicEvent"
           /\ result.member = "none"

C11_Witness ==
  /\ Decoded("StateEvent") /\ TopicPayload(value)
  /\ ~IsSome(Get(value, "state_key"))
  /\ result.kind = "LeafDecodeFailure" /\ result.msg = "missing field"

\* C12: Event decode of a payload with a known discriminator parses the
\* whole payload as the leaf shape of that discriminator; it yields the
\* member of that discriminator holding the parsed value, or fails with the
\* cause of the leaf parse and nothing else. A state-tier discriminator
\* without state_key fails so and is never put in another member.
C12_KnownPath ==
  (Decoded("Event") /\ HasTypeStr(value) /\ ~UnknownType(value)) =>
    LET et == EventTypeFromStr(value.type.s)
        ty == LeafOfMember(et.variant)
        r  == FromValue(ty, value)
    IN  /\ result.shape = ty
        /\ result.ok <=> r.ok
        /\ result.ok => (result.member = et.variant /\ result.event = r.event)
        /\ ~result.ok => (result.kind = "LeafDecodeFailure" /\ result.msg = r.cause
                          /\ result.member = "none")
        /\ (ty \in StateLeaves /\ ~IsSome(Get(value, "state_key"))) =>
             (~result.ok /\ result.kind = "LeafDecodeFailure")

C12_Witness ==
  /\ Decoded("Event") /\ TopicPayload(value) /\ ~IsSome(Get(value, "state_key"))
  /\ result.kind = "LeafDecodeFailure" /\ result.shape = "TopicEvent"

\* the payload has none of event_id, room_id and sender
NoRoomFields(v) ==
  ~IsSome(Get(v, "event_id")) /\ ~IsSome(Get(v, "room_id")) /\ ~IsSome(Get(v, "sender"))

\* C13 as stated: an unknown-discriminator payload with a content and a
\* state_key string and no event_id, room_id or sender decodes to the
\* CustomState member in all three containers.
C13_ScenarioB ==
  \A c \in Containers :
    (/\ Decoded(c) /\ UnknownType(value)
     /\ Get(value, "state_key") = Str("") /\ IsSome(Get(value, "content"))
     /\ NoRoomFields(value)) =>
      /\ result.ok
      /\ result.member = "CustomState"

\* C13 as amended: in all three containers an unknown-discriminator payload
\* that contains state_key is parsed as the custom-state generic shape and
\* nothing else; it decodes to the CustomState member when content,
\* event_id, room_id and sender are present too and state_key is a string,
\* and fails in that parse, building no member, when one of event_id,
\* room_id and sender is missing.
C13_StateKeyTargetsCustomState ==
  \A c \in Containers :
    (Decoded(c) /\ UnknownType(value) /\ IsSome(Get(value, "state_key"))) =>
      /\ result.shape = "CustomStateEvent"
      /\ result.ok => result.member = "CustomState"
      /\ (/\ Get(value, "state_key").k = "str" /\ IsSome(Get(value, "content"))
          /\ AllRoomFields(value)) => result.ok
      /\ ~AllRoomFields(value) =>
           (~result.ok /\ result.kind = "LeafDecodeFailure" /\ result.member = "none")

C13_Witness ==
  /\ Decoded("RoomEvent") /\ UnknownType(value)
  /\ Get(value, "state_key") = Str("") /\ IsSome(Get(value, "content"))
  /\ NoRoomFields(value)
  /\ result.kind = "LeafDecodeFailure" /\ result.shape = "CustomStateEvent"

\* an unknown-discriminator payload with type and content only
BarePayload(v) ==
  /\ UnknownType(v) /\ IsSome(Get(v, "content"))
  /\ ~IsSome(Get(v, "state_key")) /\ NoRoomFields(v)

\* C14 as stated: an unknown-discriminator payload with only type and
\* content decodes as Event to Custom and as RoomEvent to CustomRoom.
C14_ScenarioC ==
  BarePayload(value) =>
    /\ Decoded("Event") => (result.ok /\ result.member = "Custom")
    /\ Decoded("RoomEvent") => (result.ok /\ result.member = "CustomRoom")

\* C14 as amended: an unknown-discriminator payload with only type and
\* content decodes as Event to Custom; as RoomEvent it is parsed as the
\* custom-room generic shape and fails in that parse, building no member.
\* RoomEvent has no custom-basic fallback: every unknown-discriminator
\* payload without state_key is parsed as the custom-room generic shape
\* whatever it holds of event_id, room_id and sender, and decodes to
\* CustomRoom exactly when that parse succeeds.
C14_NoBasicFallback ==
  /\ (Decoded("Event") /\ BarePayload(value)) =>
       (result.ok /\ result.member = "Custom" /\ result.shape = "CustomEvent")
  /\ (Decoded("RoomEvent") /\ BarePayload(value)) =>
       /\ ~result.ok
       /\ result.kind = "LeafDecodeFailure"
       /\ result.shape = "CustomRoomEvent"
       /\ result.member = "none"
  /\ (Decoded("RoomEvent") /\ UnknownType(value) /\ ~IsSome(Get(value, "state_key"))) =>
       /\ result.shape = "CustomRoomEvent"
       /\ result.ok <=> FromValue("CustomRoomEvent", value).ok
       /\ result.ok => result.member = "CustomRoom"

C14_Witness ==
  /\ Decoded("RoomEvent") /\ BarePayload(value)
  /\ result.kind = "LeafDecodeFailure" /\ result.shape = "CustomRoomEvent"
  /\ result.msg = "missing field"

\* C15: Event decode drops nothing: every top-level field of a payload it
\* accepts is held by the decoded leaf value.
C15_NoDataDropped ==
  (Decoded("Event") /\ result.ok) =>
    /\ result.event.event_type = EventTypeFromStr(value.type.s)
    /\ \A n \in DataFields :
         IsSome(Get(value, n)) => result.event.f[n] = Get(value, n)

\* C16: StateEvent decode of an unknown-discriminator payload parses the
\* custom-state generic shape whatever fields the payload has: it yields
\* the CustomState member or fails in that parse, never with "not a state
\* event", and without a state_key it fails in that parse.
C16_UnconditionalCustomState ==
  (Decoded("StateEvent") /\ UnknownType(value)) =>
    LET r == FromValue("CustomStateEvent", value)
    IN  /\ result.shape = "CustomStateEvent"
        /\ result.kind \in {"Ok", "LeafDecodeFailure"}
        /\ result.msg # "not a state event"
        /\ result.ok <=> r.ok
        /\ result.ok => (result.member = "CustomState" /\ result.event = r.event)
        /\ ~result.ok => (result.msg = r.cause /\ result.member = "none")
        /\ ~IsSome(Get(value, "state_key")) => result.kind = "LeafDecodeFailure"

C16_Witness ==
  /\ Decoded("StateEvent") /\ UnknownType(value)
  /\ ~IsSome(Get(value, "state_key")) /\ AllRoomFields(value)
  /\ IsSome(Get(value, "content"))
  /\ result.kind = "LeafDecodeFailure" /\ result.shape = "CustomStateEvent"

\* the leaf arms of the decoder of c
LeafArms(c) ==
  { Arms(c)[i] : i \in {j \in 1..Len(Arms(c)) : Arms(c)[j].kind = "leaf"} }

\* the known discriminators the leaf arms S match
AcceptedBy(S) == UNION { a.pat : a \in S }

\* the known discriminators the decoder of c has a leaf arm for
Accepted(c) == AcceptedBy(LeafArms(c))

\* the members the leaf arms S build for a known discriminator
TargetsOf(S, variant) == { a.member : a \in {b \in S : variant \in b.pat} }

\* one member for each accepted discriminator, never the same for two, and
\* every non-custom member of M belongs to one discriminator
OneToOne(S, M) ==
  /\ \A t \in AcceptedBy(S) :
       /\ Cardinality(TargetsOf(S, t)) = 1
       /\ TargetsOf(S, t) \subseteq M \ CustomMembers
  /\ \A a, b \in S : a.member = b.member => a.pat = b.pat
  /\ \A m \in M \ CustomMembers :
       Cardinality({t \in AcceptedBy(S) : m \in TargetsOf(S, t)}) = 1

\* C17: StateEvent accepts 12 known discriminators, RoomEvent 18 and Event
\* all 22, each set inside the next; in each container an accepted
\* discriminator has one member, two discriminators never the same one, and
\* every non-custom member of the container belongs to one discriminator.
\* A decode is rejected as illegal exactly for a known discriminator that
\* is not accepted.
C17_NestedTables ==
  \A c \in Containers :
    (Decoded(c) /\ HasTypeStr(value) /\ ~UnknownType(value)) =>
      \A st \in {Accepted("StateEvent")}, rm \in {Accepted("RoomEvent")},
         ev \in {Accepted("Event")}, S \in {LeafArms(c)} :
        /\ st \subseteq rm
        /\ rm \subseteq ev
        /\ ev = KnownTypes
        /\ Cardinality(st) = 12
        /\ Cardinality(rm) = 18
        /\ Cardinality(ev) = 22
        /\ OneToOne(S, Members(c))
        /\ result.kind = "IllegalMemberForContainer"
             <=> EventTypeFromStr(value.type.s).variant \notin AcceptedBy(S)

C17_Witness ==
  /\ Decoded("RoomEvent") /\ HasTypeStr(value) /\ value.type.s = "m.room.redaction"
  /\ result.ok /\ result.member = "RoomRedaction"

\* C18: whenever RoomEvent decode accepts a payload, Event decode of the
\* same payload succeeds with the same member holding the same leaf value;
\* RoomEvent never yields CustomRoom where Event yields Custom.
C18_RoomWithinEvent ==
  (Decoded("RoomEvent") /\ result.ok) =>
    LET e == EventDeserialize(value)
    IN  /\ e.ok
        /\ e.member = result.member
        /\ e.event = result.event
        /\ ~(result.member = "CustomRoom" /\ EventCustom(value).member = "Custom")

C18_Witness ==
  /\ Decoded("RoomEvent") /\ UnknownType(value)
  /\ result.ok /\ result.member = "CustomRoom"
  /\ ~IsSome(Get(value, "state_key"))

\* the known discriminators the decoder of c rejects
Illegal(c) == KnownTypes \ Accepted(c)

\* C19: in every container the first failing check decides the outcome:
\* no "type" field, then a "type" that is no string, then a discriminator
\* the container rejects, then the leaf parse. A rejected discriminator
\* fails with the container's message and no leaf parse, whatever else the
\* payload holds, and a failed decode holds no member and no leaf value.
C19_CheckOrder ==
  \A c \in Containers :
    Decoded(c) =>
      /\ IF ~IsSome(Get(value, "type"))
           THEN result.kind = "MissingDiscriminator" /\ result.shape = "none"
         ELSE IF Get(value, "type").k # "str"
           THEN result.kind = "MalformedDiscriminator" /\ result.shape = "none"
         ELSE IF /\ ~UnknownType(value)
                 /\ EventTypeFromStr(value.type.s).variant \in Illegal(c)
           THEN /\ result.kind = "IllegalMemberForContainer"
                /\ result.shape = "none"
                /\ result.msg = (IF c = "RoomEvent" THEN "not a room event"
                                 ELSE "not a state event")
         ELSE /\ result.kind \in {"Ok", "LeafDecodeFailure"}
              /\ result.shape \in LeafTypes
              /\ result.ok <=> FromValue(result.shape, value).ok
      /\ result.ok <=> result.kind = "Ok"
      /\ ~result.ok => (result.member = "none" /\ result.event = NoLeaf)

C19_Witness ==
  /\ Decoded("StateEvent") /\ HasTypeStr(value) /\ value.type.s = "m.room.message"
  /\ ~IsSome(Get(value, "content")) /\ ~IsSome(Get(value, "event_id"))
  /\ result.kind = "IllegalMemberForContainer" /\ result.msg = "not a state event"

====
